---- MODULE Spec2Model ----
(***************************************************************************)
(* Model of src/bot.py: a Telegram bot that answers /finance, /period and  *)
(* /project from the spreadsheet data.xlsx and replaces that file on       *)
(* /update.                                                                *)
(*                                                                         *)
(* Conventions.                                                            *)
(*  - Column names are the English names of the design document:           *)
(*    Date = "Дата", Project = "Проект", NetProfit = "Чистая прибыль",     *)
(*    Proceeds = "Сумма к перечислению", Expenses = "Расходы".             *)
(*  - A text is a sequence of one-character strings.                       *)
(*  - A date text is "dd.mm" of one fixed year, 2024.                      *)
(*  - A money cell is an integer number of kopecks, the precision at       *)
(*    which the replies print amounts ("{:.2f}").                          *)
(*  - A reply is the identifier of the message text the handler sends,     *)
(*    with the parameters and the printed amounts it interpolates.         *)
(***************************************************************************)
EXTENDS Integers, Sequences, FiniteSets, TLC

\* ------------------------------------------------------------- bounds
MaxRows == 3
MaxArgs == 2
MaxInbox == 2

\* ------------------------------------------------------------- texts
LowerChar(c) == CASE c = "A" -> "a" [] c = "B" -> "b" [] OTHER -> c

\* str.lower()
Lower(s) == [i \in 1..Len(s) |-> LowerChar(s[i])]

\* " ".join(context.args)
RECURSIVE Join(_)
Join(args) ==
    IF Len(args) = 0 THEN <<>>
    ELSE IF Len(args) = 1 THEN args[1]
    ELSE args[1] \o <<" ">> \o Join(Tail(args))

SeqsUpTo(S, n) == UNION {[1..k -> S] : k \in 0..n}

\* ------------------------------------------------------------- dates
DaysIn(m) ==
    CASE m \in {1, 3, 5, 7, 8, 10, 12} -> 31
      [] m \in {4, 6, 9, 11} -> 30
      [] OTHER -> 29

RECURSIVE DaysBefore(_)
DaysBefore(m) == IF m <= 1 THEN 0 ELSE DaysIn(m - 1) + DaysBefore(m - 1)

Digits == <<"0", "1", "2", "3", "4", "5", "6", "7", "8", "9">>

IsDigit(c) == \E i \in 1..10 : Digits[i] = c

DigitValue(c) == (CHOOSE i \in 1..10 : Digits[i] = c) - 1

\* the text "dd.mm" of day d of month m
DateText(d, m) ==
    <<Digits[(d \div 10) + 1], Digits[(d % 10) + 1], ".",
      Digits[(m \div 10) + 1], Digits[(m % 10) + 1]>>

DayOf(t) == 10 * DigitValue(t[1]) + DigitValue(t[2])
MonthOf(t) == 10 * DigitValue(t[4]) + DigitValue(t[5])

\* whether the text reads as a calendar day, day first (the texts considered
\* have a second component of at most 12, so the month-first reading that
\* pandas falls back to never applies)
IsDate(t) ==
    /\ Len(t) = 5 /\ t[3] = "."
    /\ \A i \in {1, 2, 4, 5} : IsDigit(t[i])
    /\ MonthOf(t) \in 1..12
    /\ DayOf(t) >= 1 /\ DayOf(t) <= DaysIn(MonthOf(t))

\* the value of a missing timestamp; it compares false with every date
NaT == 0

\* pd.to_datetime(text, dayfirst=True) of a text that names a day: the first
\* component is the day, the second the month
to_datetime(t) == DaysBefore(MonthOf(t)) + DayOf(t)

\* a plausible slip: a malformed cell is given a default date (1 January)
to_datetime_fill(t) == IF IsDate(t) THEN to_datetime(t) ELSE 1

\* pd.to_datetime(cell, dayfirst=True, errors="coerce")
to_datetime_coerce(t) == IF IsDate(t) THEN to_datetime(t) ELSE NaT

\* a plausible slip: the upper end of the range is exclusive
mask_exclusive(d, start_date, end_date) ==
    d # NaT /\ d >= start_date /\ d < end_date

\* a plausible slip: a reversed range is put in order before filtering
mask_ordered(d, start_date, end_date) ==
    /\ d # NaT
    /\ IF start_date <= end_date
       THEN d >= start_date /\ d <= end_date
       ELSE d >= end_date /\ d <= start_date

\* (df["Дата"] >= start_date) & (df["Дата"] <= end_date)
mask(d, start_date, end_date) ==
    d # NaT /\ d >= start_date /\ d <= end_date

\* ------------------------------------------------------------- files
Required == {"Date", "Project", "NetProfit", "Proceeds", "Expenses"}

Row(d, p, np, pr, ex) ==
    [Date |-> d, Project |-> p, NetProfit |-> np, Proceeds |-> pr, Expenses |-> ex]

RowPool ==
    { Row(DateText(2, 1), <<"A", "b">>, 10000, 15000, 5000),
      Row(DateText(1, 2), <<"A", "b", " ", "a", "b", "2">>, 20000, 30000, 10000),
      Row(<<"?">>, <<"a", "B">>, -3050, 5, 3055) }

\* a file that is not a workbook: absent, zero bytes long, or other bytes
NotXlsx(k) == [kind |-> k, cols |-> {}, rows |-> <<>>]
Missing == NotXlsx("missing")
Empty == NotXlsx("empty")
Corrupt == NotXlsx("corrupt")
NotLoaded == NotXlsx("none")

\* a workbook with a header row `cols` and the data rows `rows`
Xlsx(cols, rows) ==
    [kind |-> "xlsx", cols |-> cols,
     rows |-> [i \in 1..Len(rows) |-> [c \in cols |-> rows[i][c]]]]

ColSets == {Required} \cup {Required \ {c} : c \in Required}

Files ==
    {Missing, Corrupt}
        \cup {Xlsx(cols, rows) : cols \in ColSets, rows \in SeqsUpTo(RowPool, MaxRows)}

\* what the remote location may serve
Bodies ==
    { Corrupt,
      Xlsx(Required, <<>>),
      Xlsx(Required, <<Row(DateText(2, 1), <<"A", "b">>, 10000, 15000, 5000)>>) }

Statuses == {200, 404}

\* ------------------------------------------------------------- updates
DateTexts == {DateText(1, 1), DateText(2, 1), DateText(1, 2), DateText(31, 2)}
NameTokens == {<<"A", "B">>, <<"a", "b">>, <<"a", "b", "2">>}

Upd(c, a) == [cmd |-> c, args |-> a, midWrite |-> FALSE]
NoUpdate == Upd("none", <<>>)

QueryCmds == {"finance", "period", "project"}

Updates ==
    {Upd("start", <<>>), Upd("update", <<>>), Upd("finance", <<>>)}
        \cup {Upd("period", a) : a \in SeqsUpTo(DateTexts, MaxArgs)}
        \cup {Upd("project", a) : a \in SeqsUpTo(NameTokens, MaxArgs)}

SampleUpdates ==
    { Upd("start", <<>>), Upd("update", <<>>), Upd("finance", <<>>),
      Upd("period", <<DateText(1, 1), DateText(2, 1)>>), Upd("project", <<<<"A", "B">>>>) }

\* ------------------------------------------------------------- replies
Abs(x) == IF x < 0 THEN -x ELSE x

\* f"{x:.2f}" of an amount of k kopecks: sign, roubles, kopecks
Fmt2(k) == [neg |-> k < 0, whole |-> Abs(k) \div 100, frac |-> Abs(k) % 100]

Msg(m, params, vals) == [msg |-> m, params |-> params, vals |-> vals]
NoReply == Msg("none", <<>>, <<>>)

\* ------------------------------------------------------------- handlers
\* a plausible slip: the first data row is taken for the header
ColumnSum_skip(rows, col) ==
    LET RECURSIVE S(_)
        S(rs) == IF rs = <<>> THEN 0 ELSE rs[1][col] + S(Tail(rs))
    IN IF rows = <<>> THEN 0 ELSE S(Tail(rows))

\* df[col].sum()
ColumnSum(rows, col) ==
    LET RECURSIVE S(_)
        S(rs) == IF rs = <<>> THEN 0 ELSE rs[1][col] + S(Tail(rs))
    IN S(rows)

NoneDf == [ok |-> FALSE, columns |-> {}, rows |-> <<>>]

\* read_data(): the DataFrame, or None when pd.read_excel raises
read_data(f) ==
    IF f.kind = "xlsx" THEN [ok |-> TRUE, columns |-> f.cols, rows |-> f.rows]
    ELSE NoneDf

\* finance(): the reply it sends
finance(f) ==
    LET df == read_data(f) IN
    IF ~df.ok THEN Msg("LoadFailed", <<>>, <<>>)
    ELSE IF ~({"NetProfit", "Proceeds", "Expenses"} \subseteq df.columns)
    THEN Msg("ProcessingFailed", <<>>, <<>>)
    ELSE Msg("FinanceReport", <<>>,
             << Fmt2(ColumnSum(df.rows, "NetProfit")),
                Fmt2(ColumnSum(df.rows, "Proceeds")),
                Fmt2(ColumnSum(df.rows, "Expenses")) >>)

\* period(): the reply it sends
period(args, f) ==
    IF Len(args) # 2 THEN Msg("PeriodUsage", <<>>, <<>>)
    ELSE IF ~IsDate(args[1]) \/ ~IsDate(args[2]) THEN Msg("PeriodFailed", <<>>, <<>>)
    ELSE
    LET start_date == to_datetime(args[1])
        end_date == to_datetime(args[2])
        df == read_data(f)
    IN
    IF ~df.ok THEN Msg("LoadFailed", <<>>, <<>>)
    ELSE IF "Date" \notin df.columns THEN Msg("NoDateColumn", <<>>, <<>>)
    ELSE
    LET df_filtered ==
            SelectSeq(df.rows,
                      LAMBDA r : mask(to_datetime_coerce(r.Date), start_date, end_date))
    IN
    IF df_filtered = <<>> THEN Msg("NoPeriodData", args, <<>>)
    ELSE IF "NetProfit" \notin df.columns THEN Msg("PeriodFailed", <<>>, <<>>)
    ELSE Msg("PeriodReport", args, <<Fmt2(ColumnSum(df_filtered, "NetProfit"))>>)

\* a plausible slip: the comparison is case-sensitive
SameProject_exact(cell, project_name) == cell = project_name

\* df["Проект"].str.lower() == project_name.lower()
SameProject(cell, project_name) == Lower(cell) = Lower(project_name)

\* project(): the reply it sends
project(args, f) ==
    IF Len(args) = 0 THEN Msg("ProjectUsage", <<>>, <<>>)
    ELSE
    LET project_name == Join(args)
        df == read_data(f)
    IN
    IF ~df.ok THEN Msg("LoadFailed", <<>>, <<>>)
    ELSE IF "Project" \notin df.columns THEN Msg("NoProjectColumn", <<>>, <<>>)
    ELSE
    LET df_filtered == SelectSeq(df.rows, LAMBDA r : SameProject(r.Project, project_name))
    IN
    IF df_filtered = <<>> THEN Msg("NoProjectData", project_name, <<>>)
    ELSE IF "NetProfit" \notin df.columns THEN Msg("ProjectFailed", <<>>, <<>>)
    ELSE Msg("ProjectReport", project_name, <<Fmt2(ColumnSum(df_filtered, "NetProfit"))>>)

\* ------------------------------------------------------------- state
VARIABLES
    file,     \* the content of data.xlsx
    inbox,    \* the commands sent to the bot and not yet handled, oldest first
    cur,      \* the command whose handler is running
    pc,       \* where that handler stands
    resp,     \* update_data's `response`
    reply,    \* the final reply the running handler sends
    loaded,   \* what read_data() found in data.xlsx for the running handler
    oldFile,  \* the content of data.xlsx before the latest download replaced it
    newFile   \* the body of the latest status-200 download (the first content if none)

vars == <<file, inbox, cur, pc, resp, reply, loaded, oldFile, newFile>>

NoResp == [status |-> 0, body |-> Empty]

\* the content read_data() finds, when the handler gets as far as calling it
Observed(u, f) ==
    CASE u.cmd = "finance" -> f
      [] u.cmd = "period" ->
            IF Len(u.args) = 2 /\ IsDate(u.args[1]) /\ IsDate(u.args[2]) THEN f ELSE NotLoaded
      [] u.cmd = "project" -> IF Len(u.args) > 0 THEN f ELSE NotLoaded
      [] OTHER -> NotLoaded

Idle ==
    /\ inbox = <<>> /\ cur = NoUpdate /\ pc = "idle"
    /\ resp = NoResp /\ reply = NoReply /\ loaded = NotLoaded
    /\ oldFile = file /\ newFile = file

Init == file \in Files /\ Idle

InitRace == file \in Bodies /\ Idle

\* ------------------------------------------------------------- dispatch
\* A user who waits for the answer before sending the next command.
Request(u) ==
    /\ inbox = <<>> /\ pc = "idle"
    /\ inbox' = <<u>>
    /\ UNCHANGED <<file, cur, pc, resp, reply, loaded, oldFile, newFile>>

\* Users who send commands at any time; a command sent while data.xlsx is
\* open for writing is marked.
RequestAnyTime(u) ==
    /\ Len(inbox) < MaxInbox
    /\ inbox' = Append(inbox, [u EXCEPT !.midWrite = (pc = "upd_write")])
    /\ UNCHANGED <<file, cur, pc, resp, reply, loaded, oldFile, newFile>>

\* a plausible slip: the handler yields to the event loop (an await) between
\* opening data.xlsx and writing it
LoopFree_yield == pc \in {"idle", "upd_write"}

\* The application handles one update at a time (ApplicationBuilder's
\* default); a handler gives up the event loop only at an await, and runs to
\* its end before the next update is taken.
LoopFree == pc = "idle"

Take(c) == LoopFree /\ inbox # <<>> /\ Head(inbox).cmd = c

Answer(r, l) ==
    /\ cur' = Head(inbox) /\ inbox' = Tail(inbox)
    /\ reply' = r /\ loaded' = l /\ pc' = "replying"
    /\ UNCHANGED <<file, resp, oldFile, newFile>>

Start == Take("start") /\ Answer(Msg("Greeting", <<>>, <<>>), NotLoaded)

Finance ==
    /\ Take("finance")
    /\ Answer(finance(file), Observed(Head(inbox), file))

Period ==
    /\ Take("period")
    /\ Answer(period(Head(inbox).args, file), Observed(Head(inbox), file))

Project ==
    /\ Take("project")
    /\ Answer(project(Head(inbox).args, file), Observed(Head(inbox), file))

\* await reply_text(...): the last step of every handler
ReplySent ==
    /\ pc = "replying"
    /\ pc' = "idle" /\ cur' = NoUpdate /\ reply' = NoReply /\ loaded' = NotLoaded
    /\ resp' = NoResp
    /\ UNCHANGED <<file, inbox, oldFile, newFile>>

\* ------------------------------------------------------------- update_data
UpdateData ==
    /\ Take("update")
    /\ cur' = Head(inbox) /\ inbox' = Tail(inbox)
    /\ pc' = "upd_notify" /\ reply' = NoReply /\ loaded' = NotLoaded
    /\ UNCHANGED <<file, resp, oldFile, newFile>>

\* the "updating" notice is out; requests.get() is called and blocks the loop
NoticeSent ==
    /\ pc = "upd_notify"
    /\ pc' = "upd_get"
    /\ UNCHANGED <<file, inbox, cur, resp, reply, loaded, oldFile, newFile>>

\* a plausible slip: the status is not looked at
Accepted_any(status) == TRUE

\* response.status_code == 200
Accepted(status) == status = 200

\* requests.get() returns
DownloadReturns(status, body) ==
    /\ pc = "upd_get"
    /\ resp' = [status |-> status, body |-> body]
    /\ newFile' = IF status = 200 THEN body ELSE newFile
    /\ IF Accepted(status)
       THEN pc' = "upd_open" /\ reply' = reply
       ELSE pc' = "replying" /\ reply' = Msg("UpdateRejected", <<>>, <<>>)
    /\ UNCHANGED <<file, inbox, cur, loaded, oldFile>>

\* requests.get() raises
DownloadRaises ==
    /\ pc = "upd_get"
    /\ pc' = "replying" /\ reply' = Msg("LoadFailed", <<>>, <<>>)
    /\ UNCHANGED <<file, inbox, cur, resp, loaded, oldFile, newFile>>

\* open("data.xlsx", "wb") truncates the file
OpenTruncate ==
    /\ pc = "upd_open"
    /\ oldFile' = file /\ file' = Empty
    /\ pc' = "upd_write"
    /\ UNCHANGED <<inbox, cur, resp, reply, loaded, newFile>>

\* file.write(response.content), and the file is closed
WriteContent ==
    /\ pc = "upd_write"
    /\ file' = resp.body
    /\ pc' = "replying" /\ reply' = Msg("Updated", <<>>, <<>>)
    /\ UNCHANGED <<inbox, cur, resp, loaded, oldFile, newFile>>

\* ------------------------------------------------------------- specifications
Handlers ==
    \/ Start \/ Finance \/ Period \/ Project \/ ReplySent
    \/ UpdateData \/ NoticeSent \/ OpenTruncate \/ WriteContent

Download ==
    \/ \E status \in Statuses, body \in Bodies : DownloadReturns(status, body)
    \/ DownloadRaises

Next ==
    \/ \E u \in Updates : Request(u)
    \/ Handlers
    \/ Download

Spec == Init /\ [][Next]_vars

NextRace ==
    \/ \E u \in SampleUpdates : RequestAnyTime(u)
    \/ Handlers
    \/ Download

SpecRace == InitRace /\ [][NextRace]_vars

\* Every step of the program is taken once it can be; when requests.get()
\* returns is up to the remote server (no timeout is passed).
FairSpecRace == SpecRace /\ WF_vars(Handlers)

\* ------------------------------------------------------------- the design's vocabulary
\* a table as the design defines it: every required column is there
ValidTable(f) == f.kind = "xlsx" /\ f.cols = Required

\* the arithmetic sum of column col over the rows numbered in I
RECURSIVE SumOver(_, _, _)
SumOver(rows, I, col) ==
    IF I = {} THEN 0
    ELSE LET i == CHOOSE j \in I : TRUE
         IN rows[i][col] + SumOver(rows, I \ {i}, col)

\* the amount, in kopecks, a printed number denotes
Printed(t) == (IF t.neg THEN -1 ELSE 1) * (100 * t.whole + t.frac)

\* day a is not after day b
NotAfter(a, b) ==
    \/ MonthOf(a) < MonthOf(b)
    \/ MonthOf(a) = MonthOf(b) /\ DayOf(a) <= DayOf(b)

\* surrounding whitespace removed
RECURSIVE Trim(_)
Trim(s) ==
    IF s = <<>> THEN s
    ELSE IF Head(s) = " " THEN Trim(Tail(s))
    ELSE IF s[Len(s)] = " " THEN Trim(SubSeq(s, 1, Len(s) - 1))
    ELSE s

EqualIgnoringCase(a, b) ==
    Len(a) = Len(b) /\ \A i \in 1..Len(a) : LowerChar(a[i]) = LowerChar(b[i])

\* the error kind of the design a message text names
KindNamed(m) ==
    CASE m \in {"FinanceReport", "PeriodReport", "ProjectReport"} -> "Report"
      [] m \in {"NoPeriodData", "NoProjectData"} -> "NoMatchingRows"
      [] m \in {"NoDateColumn", "NoProjectColumn"} -> "SchemaError"
      [] m \in {"PeriodUsage", "ProjectUsage"} -> "InvalidArgument"
      [] m = "LoadFailed" -> "LoadError"
      [] m \in {"ProcessingFailed", "PeriodFailed", "ProjectFailed"} -> "InternalError"
      [] OTHER -> "none"

\* the failure the design expects a query to end with, "none" if it expects none
Failure(u, l) ==
    CASE u.cmd = "period" /\ Len(u.args) = 2 /\ (~IsDate(u.args[1]) \/ ~IsDate(u.args[2]))
            -> "InvalidDateFormat"
      [] u.cmd = "project" /\ Trim(Join(u.args)) = <<>> -> "InvalidArgument"
      [] l.kind = "missing" -> "FileMissing"
      [] l.kind \in {"corrupt", "empty"} -> "ParseError"
      [] l.kind = "xlsx" /\ l.cols # Required -> "SchemaError"
      [] OTHER -> "none"

Answering(c) == pc = "replying" /\ cur.cmd = c

\* ------------------------------------------------------------- claims
\* C1: on a valid table /finance reports the sums of NetProfit, Proceeds and
\* Expenses over all rows; on the empty table it reports three zeros.
AggregateSums ==
    (Answering("finance") /\ ValidTable(loaded)) =>
        /\ reply.msg = "FinanceReport"
        /\ Printed(reply.vals[1]) = SumOver(loaded.rows, DOMAIN loaded.rows, "NetProfit")
        /\ Printed(reply.vals[2]) = SumOver(loaded.rows, DOMAIN loaded.rows, "Proceeds")
        /\ Printed(reply.vals[3]) = SumOver(loaded.rows, DOMAIN loaded.rows, "Expenses")
        /\ (loaded.rows = <<>> => \A i \in 1..3 : Printed(reply.vals[i]) = 0)

AggregateSumsSeen ==
    /\ Answering("finance") /\ ValidTable(loaded)
    /\ Len(loaded.rows) >= 2
    /\ \E i \in DOMAIN loaded.rows : loaded.rows[i].NetProfit < 0
    /\ reply.msg = "FinanceReport"

\* C2: /period start end on a valid table keeps exactly the rows with
\* start <= Date <= end, both ends included, and reports the sum of NetProfit
\* over them (the no-data reply when there are none).
PeriodInclusive ==
    (/\ Answering("period") /\ Len(cur.args) = 2
     /\ IsDate(cur.args[1]) /\ IsDate(cur.args[2])
     /\ ValidTable(loaded)) =>
        LET kept == {i \in DOMAIN loaded.rows :
                        /\ IsDate(loaded.rows[i].Date)
                        /\ NotAfter(cur.args[1], loaded.rows[i].Date)
                        /\ NotAfter(loaded.rows[i].Date, cur.args[2])}
        IN IF kept = {} THEN reply.msg = "NoPeriodData"
           ELSE /\ reply.msg = "PeriodReport"
                /\ Printed(reply.vals[1]) = SumOver(loaded.rows, kept, "NetProfit")

PeriodInclusiveSeen ==
    /\ Answering("period") /\ Len(cur.args) = 2
    /\ IsDate(cur.args[1]) /\ cur.args[2] = cur.args[1]
    /\ ValidTable(loaded)
    /\ \E i \in DOMAIN loaded.rows : loaded.rows[i].Date = cur.args[1]
    /\ \E i \in DOMAIN loaded.rows : loaded.rows[i].Date # cur.args[1]
    /\ reply.msg = "PeriodReport"

\* C3: a query on a table that lacks a required column ends with SchemaError.
SchemaErrorFirst ==
    (/\ pc = "replying" /\ cur.cmd \in QueryCmds
     /\ loaded.kind = "xlsx" /\ loaded.cols # Required) =>
        KindNamed(reply.msg) = "SchemaError"

\* C4: /period answers a table with malformed dates as it answers the table
\* without the rows that have them.
MalformedDatesExcluded ==
    (/\ Answering("period") /\ loaded.kind = "xlsx" /\ "Date" \in loaded.cols
     /\ \E i \in DOMAIN loaded.rows : ~IsDate(loaded.rows[i].Date)) =>
        reply = period(cur.args,
                       [loaded EXCEPT
                           !.rows = SelectSeq(loaded.rows, LAMBDA r : IsDate(r.Date))])

MalformedDatesExcludedSeen ==
    /\ Answering("period") /\ ValidTable(loaded)
    /\ Len(loaded.rows) = MaxRows
    /\ Cardinality({i \in DOMAIN loaded.rows : ~IsDate(loaded.rows[i].Date)}) = 1
    /\ reply.msg = "PeriodReport"

\* C5: /project name on a valid table keeps exactly the rows whose Project
\* equals the trimmed name, letter case ignored, and reports the sum of
\* NetProfit over them (the no-data reply when there are none).
ProjectExactMatch ==
    (Answering("project") /\ Len(cur.args) > 0 /\ ValidTable(loaded)) =>
        LET name == Trim(Join(cur.args))
            kept == {i \in DOMAIN loaded.rows :
                        EqualIgnoringCase(loaded.rows[i].Project, name)}
        IN IF kept = {} THEN reply.msg = "NoProjectData"
           ELSE /\ reply.msg = "ProjectReport"
                /\ Printed(reply.vals[1]) = SumOver(loaded.rows, kept, "NetProfit")

ProjectExactMatchSeen ==
    /\ Answering("project") /\ cur.args = << <<"A", "B">> >>
    /\ ValidTable(loaded)
    /\ \E i \in DOMAIN loaded.rows : loaded.rows[i].Project = <<"A", "b">>
    /\ \E i \in DOMAIN loaded.rows : loaded.rows[i].Project = <<"A", "b", " ", "a", "b", "2">>
    /\ reply.msg = "ProjectReport"

\* C6: a query that fails to load (FileMissing, ParseError, SchemaError) or
\* whose argument is invalid (InvalidDateFormat, InvalidArgument) ends with a
\* reply that names that kind.
ErrorsVerbatim ==
    (/\ pc = "replying" /\ cur.cmd \in QueryCmds
     /\ Failure(cur, loaded) # "none") =>
        KindNamed(reply.msg) = Failure(cur, loaded)

\* C7: whatever a query loads is the whole content data.xlsx had before the
\* latest download replaced it, or the whole body of that download.
LoadsOldOrNew ==
    (pc = "replying" /\ cur.cmd \in QueryCmds /\ loaded # NotLoaded) =>
        loaded \in {oldFile, newFile}

LoadsOldOrNewSeen ==
    /\ pc = "replying" /\ cur.cmd \in QueryCmds /\ cur.midWrite
    /\ loaded = newFile /\ newFile # oldFile

\* C8: /period with the end before the start answers "no data" on every table
\* that has a Date column.
ReversedRangeEmpty ==
    (/\ Answering("period") /\ Len(cur.args) = 2
     /\ IsDate(cur.args[1]) /\ IsDate(cur.args[2])
     /\ ~NotAfter(cur.args[1], cur.args[2])
     /\ loaded.kind = "xlsx" /\ "Date" \in loaded.cols) =>
        reply.msg = "NoPeriodData"

ReversedRangeEmptySeen ==
    /\ Answering("period") /\ Len(cur.args) = 2
    /\ IsDate(cur.args[1]) /\ IsDate(cur.args[2])
    /\ ~NotAfter(cur.args[1], cur.args[2])
    /\ ValidTable(loaded)
    /\ \E i \in DOMAIN loaded.rows :
          /\ IsDate(loaded.rows[i].Date)
          /\ NotAfter(cur.args[2], loaded.rows[i].Date)
          /\ NotAfter(loaded.rows[i].Date, cur.args[1])
    /\ reply.msg = "NoPeriodData"

\* C9: every query that has been sent is answered in the end.
QueriesAnswered ==
    (inbox # <<>> /\ Head(inbox).cmd \in QueryCmds)
        ~> (pc = "replying" /\ cur.cmd \in QueryCmds)

\* C10: data.xlsx changes only while a status-200 download is written, and
\* outside that write it holds the body of the latest status-200 download
\* (its first content if there was none).
FileFollowsDownloads ==
    [][/\ file' # file => (pc \in {"upd_open", "upd_write"} /\ resp.status = 200)
       /\ pc' \notin {"upd_open", "upd_write"} => file' = newFile']_vars

FileFollowsDownloadsSeen ==
    /\ Answering("update") /\ reply.msg = "UpdateRejected"
    /\ resp.body # file /\ file = newFile /\ newFile # oldFile

====
